---- MODULE Spec2Model ----
(***************************************************************************)
(* Model of djblets/webapi/decorators.py: the view decorators webapi,      *)
(* webapi_login_required, webapi_permission_required and                   *)
(* webapi_request_fields.                                                  *)
(*                                                                         *)
(* A decorated view is built once (Init: the decorator's parameters) and   *)
(* is then called with a request; each call is one action that runs the    *)
(* whole wrapper body.  Python strings are sequences of one-character      *)
(* strings, so that parsing and formatting are computed, not assumed.      *)
(***************************************************************************)
EXTENDS Integers, Sequences, FiniteSets, TLC

VARIABLES
    wrapper,        \* which decorator built the view under call
    required,       \* webapi_request_fields: required schema, name -> type
    optional,       \* webapi_request_fields: optional schema, name -> type
    allow_unknown,  \* webapi_request_fields: allow_unknown
    perm,           \* webapi_permission_required: the permission name
    pc,             \* "idle": no call in progress; "done": a call returned
    request,        \* the HttpRequest of the current call, as it came in
    user,           \* request.user, which basic_access_login may change
    args,           \* positional arguments of the current call
    kwargs,         \* keyword arguments of the current call
    invalid_fields, \* _validate: the invalid-fields report
    events,         \* calls made by the wrapper, in order
    response        \* the value the wrapper returned

vars == <<wrapper, required, optional, allow_unknown, perm, pc, request, user,
          args, kwargs, invalid_fields, events, response>>

(***************************************************************************)
(* Bounds of the model.                                                    *)
(***************************************************************************)
MaxParams == 2      \* parameters of one request: GET, POST and FILES together

(***************************************************************************)
(* Python values.                                                          *)
(***************************************************************************)
PyNone == [t |-> "none", s |-> <<>>, n |-> 0, b |-> FALSE]
PyStr(s) == [t |-> "str", s |-> s, n |-> 0, b |-> FALSE]
PyInt(n) == [t |-> "int", s |-> <<>>, n |-> n, b |-> FALSE]
PyBool(b) == [t |-> "bool", s |-> <<>>, n |-> 0, b |-> b]
PyUpload == [t |-> "upload", s |-> <<>>, n |-> 0, b |-> FALSE]

EmptyDict == [k \in {} |-> PyNone]

\* dict.get(key, PyNone)
Get(d, k) == IF k \in DOMAIN d THEN d[k] ELSE PyNone

\* d.update(e) on a copy of d
Update(d, e) ==
    [k \in DOMAIN d \cup DOMAIN e |-> IF k \in DOMAIN e THEN e[k] ELSE d[k]]

\* sep.join(items), every item and sep a sequence of characters
RECURSIVE Join(_, _)
Join(sep, items) ==
    IF Len(items) = 0 THEN <<>>
    ELSE IF Len(items) = 1 THEN items[1]
    ELSE items[1] \o sep \o Join(sep, Tail(items))

(***************************************************************************)
(* Strings of the program.                                                 *)
(***************************************************************************)
JSON == <<"j", "s", "o", "n">>
XML == <<"x", "m", "l">>
ONE == <<"1">>
TRUE_STR == <<"T", "r", "u", "e">>
ABC == <<"a", "b", "c">>

FIELD_NOT_SUPPORTED == <<"Field is not supported">>
FIELD_REQUIRED == <<"This field is required">>

\* the names the unknown-field check skips
SpecialNames == {"_method", "callback"}

(***************************************************************************)
(* Field types of a schema entry: info['type'] is one of the classes bool, *)
(* int, str, file, or a list of choices.                                   *)
(***************************************************************************)
Class(name) == [kind |-> name, choices |-> <<>>]
ChoiceList(choices) == [kind |-> "list", choices |-> choices]

\* info['type'] == file
IsFileClass(type) == type.kind = "file"

\* isinstance(info['type'], file): true of an open file object only; the
\* class file itself is an instance of type, not of file.
IsFileInstance(type) == type.kind = "file object"

\* type(info['type']) in (list, tuple)
IsChoiceList(type) == type.kind = "list"

\* issubclass(info['type'], bool)
IsSubclassOfBool(type) == type.kind = "bool"

\* issubclass(info['type'], int): bool is a subclass of int
IsSubclassOfInt(type) == type.kind \in {"int", "bool"}

(***************************************************************************)
(* int(value) on a string: surrounding blanks are stripped, one sign is    *)
(* allowed, and at least one decimal digit must follow, nothing else.      *)
(***************************************************************************)
DigitChars == <<"0", "1", "2", "3", "4", "5", "6", "7", "8", "9">>

IsDigit(c) == \E i \in 1..10 : DigitChars[i] = c

DigitValue(c) == (CHOOSE i \in 1..10 : DigitChars[i] = c) - 1

RECURSIVE LStrip(_)
LStrip(s) ==
    IF Len(s) > 0 /\ s[1] = " " THEN LStrip(Tail(s)) ELSE s

RECURSIVE RStrip(_)
RStrip(s) ==
    IF Len(s) > 0 /\ s[Len(s)] = " " THEN RStrip(SubSeq(s, 1, Len(s) - 1)) ELSE s

Strip(s) == RStrip(LStrip(s))

Unsigned(s) == IF Len(s) > 0 /\ s[1] \in {"+", "-"} THEN Tail(s) ELSE s

\* int(value) does not raise ValueError
IntParses(s) ==
    LET u == Unsigned(Strip(s))
    IN  Len(u) > 0 /\ \A i \in 1..Len(u) : IsDigit(u[i])

RECURSIVE Magnitude(_)
Magnitude(u) ==
    IF Len(u) = 0 THEN 0
    ELSE 10 * Magnitude(SubSeq(u, 1, Len(u) - 1)) + DigitValue(u[Len(u)])

ParseInt(s) ==
    LET t == Strip(s)
        m == Magnitude(Unsigned(t))
    IN  IF t[1] = "-" THEN 0 - m ELSE m

(***************************************************************************)
(* The messages of the coercion pass.                                      *)
(***************************************************************************)
\* "'%s' is not an integer" % value
NotAnIntegerMessage(value) ==
    <<"'">> \o value.s \o <<"' is not an integer">>

\* ["'%s'" for choice in choices]: the format string itself, once per choice
QuotedChoices(choices) ==
    [i \in 1..Len(choices) |-> <<"'%s'">>]

\* "'%s' is not a valid value. Valid values are: %s"
\*     % (value, ', '.join(["'%s'" for choice in choices]))
InvalidChoiceMessage(value, choices) ==
    <<"'">> \o value.s \o <<"' is not a valid value. Valid values are: ">>
        \o Join(<<", ">>, QuotedChoices(choices))

\* a faulty variant of BoolCoercion: the truth value of the raw string,
\* bool(value), true of every non-empty string
BoolCoercionByTruthiness(value) ==
    value.t = "str" /\ value.s # <<>>

\* value in (1, "1", True, "True")
BoolCoercion(value) ==
    value \in {PyInt(1), PyStr(ONE), PyBool(TRUE), PyStr(TRUE_STR)}

\* Lines 193-215 for one field: the value written to new_kwargs and the
\* messages (none or one) written to invalid_fields.
Coerce(type, value) ==
    IF value = PyNone THEN [value |-> value, errors |-> <<>>]
    ELSE IF IsChoiceList(type) THEN
        IF \A i \in 1..Len(type.choices) : PyStr(type.choices[i]) # value
        THEN [value |-> value,
              errors |-> <<InvalidChoiceMessage(value, type.choices)>>]
        ELSE [value |-> value, errors |-> <<>>]
    ELSE IF IsSubclassOfBool(type) THEN
        [value |-> PyBool(BoolCoercion(value)), errors |-> <<>>]
    ELSE IF IsSubclassOfInt(type) THEN
        IF IntParses(value.s)
        THEN [value |-> PyInt(ParseInt(value.s)), errors |-> <<>>]
        ELSE [value |-> value, errors |-> <<NotAnIntegerMessage(value)>>]
    ELSE [value |-> value, errors |-> <<>>]

(***************************************************************************)
(* The passes of _validate.                                                *)
(***************************************************************************)
\* request.GET for a GET request, request.POST otherwise
RequestFields(req) == IF req.method = "GET" THEN req.GET ELSE req.POST

\* supported_fields = required.copy(); supported_fields.update(optional)
SupportedFields(req_schema, opt_schema) == Update(req_schema, opt_schema)

\* a faulty variant of UnsupportedNames: only callback is special
UnsupportedNamesButCallback(req_schema, opt_schema, unknown_ok, req) ==
    IF unknown_ok THEN {}
    ELSE {name \in DOMAIN RequestFields(req) :
            /\ name # "callback"
            /\ name \notin DOMAIN SupportedFields(req_schema, opt_schema)}

\* the names the unknown-field loop writes to invalid_fields
UnsupportedNames(req_schema, opt_schema, unknown_ok, req) ==
    IF unknown_ok THEN {}
    ELSE {name \in DOMAIN RequestFields(req) :
            /\ name \notin SpecialNames
            /\ name \notin DOMAIN SupportedFields(req_schema, opt_schema)}

\* the names the required-field loop writes to invalid_fields
MissingNames(req_schema, req) ==
    {name \in DOMAIN req_schema :
        LET temp_fields == IF IsFileClass(req_schema[name])
                           THEN req.FILES ELSE RequestFields(req)
        IN  Get(temp_fields, name) = PyNone}

\* the names the coercion loop visits (it skips on isinstance(type, file))
CoercedNames(req_schema, opt_schema) ==
    {name \in DOMAIN SupportedFields(req_schema, opt_schema) :
        ~IsFileInstance(SupportedFields(req_schema, opt_schema)[name])}

CoercedField(req_schema, opt_schema, req, name) ==
    Coerce(SupportedFields(req_schema, opt_schema)[name],
           Get(RequestFields(req), name))

\* the names the coercion loop writes to invalid_fields
MalformedNames(req_schema, opt_schema, req) ==
    {name \in CoercedNames(req_schema, opt_schema) :
        CoercedField(req_schema, opt_schema, req, name).errors # <<>>}

\* invalid_fields when the three loops are over: each loop assigns
\* invalid_fields[field_name] = [message], so a later loop replaces what an
\* earlier one stored under the same name.
InvalidFields(req_schema, opt_schema, unknown_ok, req) ==
    LET unsupported == UnsupportedNames(req_schema, opt_schema, unknown_ok, req)
        missing == MissingNames(req_schema, req)
        malformed == MalformedNames(req_schema, opt_schema, req)
        pass1 == [name \in unsupported |-> <<FIELD_NOT_SUPPORTED>>]
        pass2 == Update(pass1, [name \in missing |-> <<FIELD_REQUIRED>>])
    IN  Update(pass2,
               [name \in malformed |->
                   CoercedField(req_schema, opt_schema, req, name).errors])

\* new_kwargs when the coercion loop is over
NewKwargs(req_schema, opt_schema, req, kw) ==
    Update(kw, [name \in CoercedNames(req_schema, opt_schema) |->
                   CoercedField(req_schema, opt_schema, req, name).value])

(***************************************************************************)
(* Requests, responses and calls.                                          *)
(***************************************************************************)
\* _find_httprequest(args): the position of the request among the
\* positional arguments, first for a function view, second for a method.
find_httprequest(call_args) ==
    IF call_args[1] = "HttpRequest" THEN 1 ELSE 2

\* the asserts of _find_httprequest hold
RequestFound(call_args) ==
    \/ call_args[1] = "HttpRequest"
    \/ Len(call_args) > 1 /\ call_args[2] = "HttpRequest"

Response(cls, err, api_format, fields) ==
    [cls |-> cls, err |-> err, api_format |-> api_format, fields |-> fields]

NoResponse == Response("NoneType", "", PyNone, EmptyDict)

\* WebAPIResponseError(request, err), before any wrapper tags it
WebAPIResponseError(err) == Response("WebAPIResponseError", err, PyNone, EmptyDict)

\* isinstance(response, WebAPIResponse)
IsWebAPIResponse(resp) == resp.cls \in {"WebAPIResponse", "WebAPIResponseError"}

\* kwargs.get('api_format', 'json')
ApiFormat(kw) ==
    IF "api_format" \in DOMAIN kw THEN kw["api_format"] ELSE PyStr(JSON)

\* a faulty variant of Tagged: type(response) == WebAPIResponse, which
\* leaves out the subclass WebAPIResponseError
TaggedExactClass(resp, kw) ==
    IF resp.cls = "WebAPIResponse"
    THEN [resp EXCEPT !.api_format = ApiFormat(kw)]
    ELSE resp

\* if isinstance(response, WebAPIResponse): response.api_format = ...
Tagged(resp, kw) ==
    IF IsWebAPIResponse(resp)
    THEN [resp EXCEPT !.api_format = ApiFormat(kw)]
    ELSE resp

\* the pair INVALID_FORM_DATA, {'fields': invalid_fields}
InvalidFormData(fields) == Response("tuple", "INVALID_FORM_DATA", PyNone, fields)

Call(op, call_args, kw, result) ==
    [op |-> op, args |-> call_args, kwargs |-> kw, result |-> result]

(***************************************************************************)
(* Inputs of the model.                                                    *)
(***************************************************************************)
FieldNames == {"a"}          \* the names a schema may declare
UnknownNames == {"x"}        \* a name no schema declares
ParamNames == FieldNames \cup UnknownNames \cup SpecialNames
Choices == <<ABC, <<"b">>>>
Types == {Class("bool"), Class("int"), Class("str"), Class("file"),
          ChoiceList(Choices)}
RawValues == {PyStr(ONE), PyStr(TRUE_STR), PyStr(ABC)}
PermNames == {"can_edit", "can_delete"}
ArgShapes == {<<"HttpRequest">>, <<"View", "HttpRequest">>}
CallKwargs == {EmptyDict,
               [k \in {"a", "api_format"} |->
                   IF k = "a" THEN PyStr(<<"u">>) ELSE PyStr(XML)]}

\* what a view may return
ViewResults == {Response("WebAPIResponse", "", PyStr(XML), EmptyDict),
                Response("WebAPIResponseError", "DOES_NOT_EXIST", PyNone, EmptyDict),
                Response("HttpResponse", "", PyNone, EmptyDict)}

DictsUpTo(names, values, k) ==
    UNION {[D -> values] : D \in {E \in SUBSET names : Cardinality(E) <= k}}

Size(d) == Cardinality(DOMAIN d)

NoUser == [authenticated |-> FALSE, perms |-> {}]

Request(method, get, post, files, meta, identity) ==
    [method |-> method, GET |-> get, POST |-> post, FILES |-> files,
     META |-> meta, user |-> identity]

NoRequest == Request("", EmptyDict, EmptyDict, EmptyDict, {}, NoUser)

\* the requests a field-validated view is called with
FieldRequests ==
    {req \in {Request(m, g, p, f, {}, NoUser) :
                 m \in {"GET", "POST"},
                 g \in DictsUpTo(ParamNames, RawValues, MaxParams),
                 p \in DictsUpTo(ParamNames, RawValues, MaxParams),
                 f \in DictsUpTo(FieldNames, {PyUpload}, MaxParams)} :
        Size(req.GET) + Size(req.POST) + Size(req.FILES) <= MaxParams}

\* the schemas a view is decorated with: <<required, optional>>
Schemas ==
    DictsUpTo(FieldNames, Types, Cardinality(FieldNames))
        \X DictsUpTo(FieldNames, Types, Cardinality(FieldNames))

\* the requests a gated view is called with
GateRequests ==
    {Request("GET", EmptyDict, EmptyDict, EmptyDict, meta,
             [authenticated |-> auth, perms |-> perms]) :
        meta \in {{}, {"HTTP_AUTHORIZATION"}},
        auth \in BOOLEAN,
        perms \in SUBSET PermNames}

(***************************************************************************)
(* Initial states: a view decorated by one of the four decorators, not     *)
(* called yet.                                                             *)
(***************************************************************************)
Idle ==
    /\ pc = "idle"
    /\ request = NoRequest
    /\ user = NoUser
    /\ args = <<>>
    /\ kwargs = EmptyDict
    /\ invalid_fields = EmptyDict
    /\ events = <<>>
    /\ response = NoResponse

\* @webapi_request_fields(required, optional, allow_unknown)
Init ==
    /\ wrapper = "webapi_request_fields"
    /\ \E schema \in Schemas : required = schema[1] /\ optional = schema[2]
    /\ allow_unknown \in BOOLEAN
    /\ perm = ""
    /\ Idle

\* @webapi, @webapi_login_required, @webapi_permission_required(perm)
InitGates ==
    /\ \/ wrapper \in {"webapi", "webapi_login_required"} /\ perm = ""
       \/ wrapper = "webapi_permission_required" /\ perm \in PermNames
    /\ required = EmptyDict
    /\ optional = EmptyDict
    /\ allow_unknown = FALSE
    /\ Idle

decorated == <<wrapper, required, optional, allow_unknown, perm>>

(***************************************************************************)
(* The calls.                                                              *)
(***************************************************************************)
\* webapi._dec
webapi_dec ==
    /\ pc = "idle"
    /\ wrapper = "webapi"
    /\ \E req \in GateRequests, a \in ArgShapes, kw \in CallKwargs,
          result \in ViewResults :
        /\ request' = req
        /\ user' = req.user
        /\ args' = a
        /\ kwargs' = kw
        /\ events' = <<Call("view_func", a, kw, result)>>
        /\ response' = Tagged(result, kw)
    /\ pc' = "done"
    /\ UNCHANGED <<decorated, invalid_fields>>

\* a faulty variant of AttemptsLogin: the header alone triggers the exchange
AttemptsLoginOnHeader(req) == "HTTP_AUTHORIZATION" \in req.META

\* if not request.user.is_authenticated():
\*     if 'HTTP_AUTHORIZATION' in request.META: basic_access_login(request)
AttemptsLogin(req) ==
    ~req.user.authenticated /\ "HTTP_AUTHORIZATION" \in req.META

\* webapi_login_required._checklogin; login_ok is whether basic_access_login
\* leaves the user authenticated
checklogin ==
    /\ pc = "idle"
    /\ wrapper = "webapi_login_required"
    /\ \E req \in GateRequests, a \in ArgShapes, kw \in CallKwargs,
          result \in ViewResults, login_ok \in BOOLEAN :
        LET login == IF AttemptsLogin(req)
                     THEN <<Call("basic_access_login", <<"HttpRequest">>,
                                 EmptyDict, NoResponse)>>
                     ELSE <<>>
            identity == IF AttemptsLogin(req)
                        THEN [req.user EXCEPT !.authenticated = login_ok]
                        ELSE req.user
        IN  /\ RequestFound(a)
            /\ a[find_httprequest(a)] = "HttpRequest"
            /\ request' = req
            /\ user' = identity
            /\ args' = a
            /\ kwargs' = kw
            /\ IF identity.authenticated
               THEN /\ events' = login \o <<Call("view_func", a, kw, result)>>
                    /\ response' = Tagged(result, kw)
               ELSE /\ events' = login
                    /\ response' = Tagged(WebAPIResponseError("NOT_LOGGED_IN"), kw)
    /\ pc' = "done"
    /\ UNCHANGED <<decorated, invalid_fields>>

\* a faulty variant of PermissionCheck: the two tests in the other order
PermissionCheckFirst(identity, permission) ==
    IF permission \notin identity.perms THEN "PERMISSION_DENIED"
    ELSE IF ~identity.authenticated THEN "NOT_LOGGED_IN"
    ELSE "view_func"

\* the if/elif/else of _checkpermissions: the error to answer with, or
\* "view_func" when the view is to be called
PermissionCheck(identity, permission) ==
    IF ~identity.authenticated THEN "NOT_LOGGED_IN"
    ELSE IF permission \notin identity.perms THEN "PERMISSION_DENIED"
    ELSE "view_func"

\* webapi_permission_required._dec._checkpermissions
checkpermissions ==
    /\ pc = "idle"
    /\ wrapper = "webapi_permission_required"
    /\ \E req \in GateRequests, a \in ArgShapes, kw \in CallKwargs,
          result \in ViewResults :
        /\ RequestFound(a)
        /\ a[find_httprequest(a)] = "HttpRequest"
        /\ request' = req
        /\ user' = req.user
        /\ args' = a
        /\ kwargs' = kw
        /\ IF PermissionCheck(req.user, perm) = "view_func"
           THEN /\ events' = <<Call("view_func", a, kw, result)>>
                /\ response' = Tagged(result, kw)
           ELSE /\ events' = <<>>
                /\ response' =
                       Tagged(WebAPIResponseError(PermissionCheck(req.user, perm)), kw)
    /\ pc' = "done"
    /\ UNCHANGED <<decorated, invalid_fields>>

\* a faulty variant of ShortCircuits: len(invalid_fields) > 1
ShortCircuitsOnSeveral(report) == Size(report) > 1

\* if invalid_fields:
ShortCircuits(report) == report # EmptyDict

\* webapi_request_fields._dec._validate
validate ==
    /\ pc = "idle"
    /\ wrapper = "webapi_request_fields"
    /\ \E req \in FieldRequests, a \in ArgShapes, kw \in CallKwargs :
        LET report == InvalidFields(required, optional, allow_unknown, req)
            new_kwargs == NewKwargs(required, optional, req, kw)
        IN  /\ RequestFound(a)
            /\ a[find_httprequest(a)] = "HttpRequest"
            /\ request' = req
            /\ user' = req.user
            /\ args' = a
            /\ kwargs' = kw
            /\ invalid_fields' = report
            /\ IF ShortCircuits(report)
               THEN /\ events' = <<>>
                    /\ response' = InvalidFormData(report)
               ELSE \E result \in ViewResults :
                    /\ events' = <<Call("view_func", a, new_kwargs, result)>>
                    /\ response' = result
    /\ pc' = "done"
    /\ UNCHANGED decorated

\* the caller takes the response; the decorated view can be called again
Return ==
    /\ pc = "done"
    /\ pc' = "idle"
    /\ request' = NoRequest
    /\ user' = NoUser
    /\ args' = <<>>
    /\ kwargs' = EmptyDict
    /\ invalid_fields' = EmptyDict
    /\ events' = <<>>
    /\ response' = NoResponse
    /\ UNCHANGED decorated

Next == validate \/ Return

NextGates == webapi_dec \/ checklogin \/ checkpermissions \/ Return

Spec == Init /\ [][Next]_vars

SpecGates == InitGates /\ [][NextGates]_vars

(***************************************************************************)
(* Vocabulary of the properties.  These definitions restate what the       *)
(* documentation says, on the observable state of a finished call; they    *)
(* use none of the operators that model the wrapper bodies.                *)
(***************************************************************************)
Finished(w) == pc = "done" /\ wrapper = w

ViewCalls == SelectSeq(events, LAMBDA e : e.op = "view_func")

LoginCalls == SelectSeq(events, LAMBDA e : e.op = "basic_access_login")

\* the messages reported under a field name
Messages(name) ==
    IF name \in DOMAIN invalid_fields
    THEN {invalid_fields[name][i] : i \in 1..Len(invalid_fields[name])}
    ELSE {}

\* query parameters for GET, body parameters otherwise
SourceParams == IF request.method = "GET" THEN request.GET ELSE request.POST

Declared == DOMAIN required \cup DOMAIN optional

\* the type of a declared field after optional has overridden required
DeclaredType(name) ==
    IF name \in DOMAIN optional THEN optional[name] ELSE required[name]

\* the api_format keyword argument, "json" when absent
ExpectedFormat ==
    IF "api_format" \in DOMAIN kwargs
    THEN kwargs["api_format"]
    ELSE PyStr(<<"j", "s", "o", "n">>)

SameButFormat(r1, r2) ==
    r1.cls = r2.cls /\ r1.err = r2.err /\ r1.fields = r2.fields

\* the decimal strings among the raw values, with the integers they denote
DecimalStrings == [s \in {<<"1">>} |-> 1]

IsTruthyForm(raw) ==
    raw \in {PyInt(1), PyStr(<<"1">>), PyBool(TRUE), PyStr(<<"T", "r", "u", "e">>)}

NotIntegerText(raw) == <<"'">> \o raw.s \o <<"' is not an integer">>

InvalidChoicePrefix(raw) ==
    <<"'">> \o raw.s \o <<"' is not a valid value. Valid values are: ">>

\* 'a', 'b': every choice quoted, joined by a comma and a blank
RECURSIVE QuotedList(_)
QuotedList(choices) ==
    IF Len(choices) = 0 THEN <<>>
    ELSE <<"'">> \o choices[1] \o <<"'">>
         \o (IF Len(choices) > 1 THEN <<", ">> ELSE <<>>)
         \o QuotedList(Tail(choices))

IsChoice(raw, choices) == \E i \in 1..Len(choices) : raw = PyStr(choices[i])

UnsupportedRule(name) ==
    /\ ~allow_unknown
    /\ name \in DOMAIN SourceParams
    /\ name \notin {"_method", "callback"}
    /\ name \notin DOMAIN required
    /\ name \notin DOMAIN optional

\* where the presence of a required field is looked up
PresenceParams(name) ==
    IF required[name].kind = "file" THEN request.FILES ELSE SourceParams

MissingRule(name) ==
    /\ name \in DOMAIN required
    /\ name \notin DOMAIN PresenceParams(name)

InvalidChoiceRule(name) ==
    /\ name \in Declared
    /\ DeclaredType(name).kind = "list"
    /\ name \in DOMAIN SourceParams
    /\ ~IsChoice(SourceParams[name], DeclaredType(name).choices)

NotIntegerRule(name) ==
    /\ name \in Declared
    /\ DeclaredType(name).kind = "int"
    /\ name \in DOMAIN SourceParams
    /\ SourceParams[name].s \notin DOMAIN DecimalStrings

(***************************************************************************)
(* C1: webapi_request_fields: when the invalid-fields report is not empty  *)
(* the wrapper returns the pair (INVALID_FORM_DATA, {fields: report}) and  *)
(* never calls the view; when it is empty the view is called exactly once, *)
(* with the original positional arguments, and its result is returned.     *)
(***************************************************************************)
C1_ShortCircuitOrDelegate ==
    Finished("webapi_request_fields") =>
        IF DOMAIN invalid_fields # {}
        THEN /\ response.cls = "tuple"
             /\ response.err = "INVALID_FORM_DATA"
             /\ response.fields = invalid_fields
             /\ Len(ViewCalls) = 0
        ELSE /\ Len(ViewCalls) = 1
             /\ ViewCalls[1].args = args
             /\ response = ViewCalls[1].result

C1_Witness ==
    /\ Finished("webapi_request_fields")
    /\ DOMAIN invalid_fields # {}
    /\ response.err = "INVALID_FORM_DATA"
    /\ response.fields = invalid_fields
    /\ ViewCalls = <<>>

C3_NoFileArgument ==
    (Finished("webapi_request_fields") /\ ViewCalls # <<>>) =>
        LET passed == ViewCalls[1].kwargs
            injected == {name \in Declared : DeclaredType(name).kind # "file"}
        IN  /\ DOMAIN passed = DOMAIN kwargs \cup injected
            /\ \A name \in DOMAIN kwargs \ injected : passed[name] = kwargs[name]
            /\ \A name \in injected \ DOMAIN SourceParams : passed[name] = PyNone

(***************************************************************************)
(* C4 (as documented): for a field whose type is a list of choices and     *)
(* whose raw value is present: a listed value records no choice violation; *)
(* any other value records the message naming the value and listing every *)
(* declared choice, quoted and comma-joined.                               *)
(***************************************************************************)
C4_ChoiceMessageListsChoices ==
    Finished("webapi_request_fields") =>
        \A name \in Declared :
            (DeclaredType(name).kind = "list" /\ name \in DOMAIN SourceParams) =>
                LET raw == SourceParams[name]
                    choices == DeclaredType(name).choices
                IN  IF IsChoice(raw, choices)
                    THEN \A m \in Messages(name) : m = FIELD_REQUIRED
                    ELSE invalid_fields[name] =
                            <<InvalidChoicePrefix(raw) \o QuotedList(choices)>>

(***************************************************************************)
(* C5: webapi_login_required attempts basic_access_login at most once per  *)
(* call, and exactly once when the user is not authenticated on entry and  *)
(* HTTP_AUTHORIZATION is present; the attempt precedes the view; the view  *)
(* is called exactly when the user is authenticated afterwards, otherwise  *)
(* a NOT_LOGGED_IN error is returned.                                      *)
(***************************************************************************)
C5_LoginOnceThenGate ==
    Finished("webapi_login_required") =>
        /\ Len(LoginCalls) <= 1
        /\ (Len(LoginCalls) = 1) <=>
              (~request.user.authenticated /\ "HTTP_AUTHORIZATION" \in request.META)
        /\ \A i, j \in 1..Len(events) :
              (events[i].op = "basic_access_login" /\ events[j].op = "view_func")
                  => i < j
        /\ Len(ViewCalls) = (IF user.authenticated THEN 1 ELSE 0)
        /\ ~user.authenticated =>
              /\ response.cls = "WebAPIResponseError"
              /\ response.err = "NOT_LOGGED_IN"

C5_Witness ==
    /\ Finished("webapi_login_required")
    /\ ~request.user.authenticated
    /\ user.authenticated
    /\ Len(events) = 2
    /\ events[1].op = "basic_access_login"
    /\ events[2].op = "view_func"

(***************************************************************************)
(* C6: webapi_permission_required(perm) decides in order: not              *)
(* authenticated gives NOT_LOGGED_IN, even for a user holding perm;        *)
(* authenticated without perm gives PERMISSION_DENIED; otherwise the view  *)
(* is called and its result returned.  No credential exchange is tried.    *)
(***************************************************************************)
C6_PermissionOrder ==
    Finished("webapi_permission_required") =>
        /\ LoginCalls = <<>>
        /\ user = request.user
        /\ IF ~request.user.authenticated
           THEN /\ ViewCalls = <<>>
                /\ response.cls = "WebAPIResponseError"
                /\ response.err = "NOT_LOGGED_IN"
           ELSE IF perm \notin request.user.perms
           THEN /\ ViewCalls = <<>>
                /\ response.cls = "WebAPIResponseError"
                /\ response.err = "PERMISSION_DENIED"
           ELSE /\ Len(ViewCalls) = 1
                /\ SameButFormat(response, ViewCalls[1].result)

C6_Witness ==
    /\ Finished("webapi_permission_required")
    /\ ~request.user.authenticated
    /\ perm \in request.user.perms
    /\ "HTTP_AUTHORIZATION" \in request.META
    /\ response.err = "NOT_LOGGED_IN"
    /\ events = <<>>

(***************************************************************************)
(* C7: in webapi, webapi_login_required and webapi_permission_required,    *)
(* whatever the branch, a returned WebAPIResponse (error responses         *)
(* included) has api_format set to the api_format keyword argument, or to  *)
(* "json" without one; any other returned value is the view's result,      *)
(* unchanged.                                                              *)
(***************************************************************************)
C7_FormatTagged ==
    (pc = "done" /\ wrapper # "webapi_request_fields") =>
        /\ response.cls \in {"WebAPIResponse", "WebAPIResponseError"} =>
              response.api_format = ExpectedFormat
        /\ ViewCalls = <<>> => response.cls = "WebAPIResponseError"
        /\ ViewCalls # <<>> =>
              /\ SameButFormat(response, ViewCalls[1].result)
              /\ response.cls \notin {"WebAPIResponse", "WebAPIResponseError"} =>
                    response = ViewCalls[1].result

C7_Witness ==
    /\ Finished("webapi_permission_required")
    /\ response.err = "PERMISSION_DENIED"
    /\ "api_format" \in DOMAIN kwargs
    /\ response.api_format = PyStr(<<"x", "m", "l">>)

(***************************************************************************)
(* C8 (as documented): for every required field, presence is looked up in  *)
(* request.FILES when its required type is the file class and in the       *)
(* selected source parameters otherwise; when absent there, the payload    *)
(* holds "This field is required" under the name and the view is not       *)
(* called; when present there, no such message is reported.                *)
(***************************************************************************)
C8_RequiredReported ==
    Finished("webapi_request_fields") =>
        \A name \in DOMAIN required :
            IF MissingRule(name)
            THEN /\ FIELD_REQUIRED \in Messages(name)
                 /\ response.err = "INVALID_FORM_DATA"
                 /\ name \in DOMAIN response.fields
                 /\ response.fields[name] = invalid_fields[name]
                 /\ ViewCalls = <<>>
            ELSE FIELD_REQUIRED \notin Messages(name)

(***************************************************************************)
(* C9 (as documented): the payload holds the message of every rule that    *)
(* triggers, under its field name, also when two rules trigger for the     *)
(* same name.                                                              *)
(***************************************************************************)
C9_AllViolationsReported ==
    Finished("webapi_request_fields") =>
        \A name \in ParamNames :
            /\ UnsupportedRule(name) => FIELD_NOT_SUPPORTED \in Messages(name)
            /\ MissingRule(name) => FIELD_REQUIRED \in Messages(name)
            /\ NotIntegerRule(name) =>
                  NotIntegerText(SourceParams[name]) \in Messages(name)
            /\ InvalidChoiceRule(name) =>
                  \E m \in Messages(name) :
                      LET prefix == InvalidChoicePrefix(SourceParams[name])
                      IN  /\ Len(m) >= Len(prefix)
                          /\ SubSeq(m, 1, Len(prefix)) = prefix

====
